---- MODULE Spec2Model ----
(***************************************************************************)
(* A model of bot.py, the "Liquidity Matrix" alert bot: the sweep          *)
(* detector, the liquidity-zone calculator, the two trade-plan builders,   *)
(* get_and_analyze, format_plan_message and the two scheduled jobs.        *)
(*                                                                         *)
(* Prices.  The provider quotes prices as decimal strings; the model       *)
(* writes a quoted price as an integer number of 1/10000 ("quote units",   *)
(* four decimals).  float() turns a quote into the program's number,       *)
(* which the model keeps in ticks of 0.00005 (half a quote unit), so that  *)
(* the midpoint (close + low) / 2 of two parsed prices is again a whole    *)
(* number of ticks.  1.0 is One ticks, 0.01 is pip_value ticks.            *)
(*                                                                         *)
(* Left out: a candle's datetime and volume (no function modelled here     *)
(* reads them); the text of the messages (a message is the record of the   *)
(* fields it prints); the outcome of the delivery to Telegram, which       *)
(* send_telegram_message swallows and no caller reads (sent is the list of *)
(* the messages handed to it); and answers whose fields are not numbers,   *)
(* on which parse_candles raises.  An unset TD_API_KEY makes               *)
(* twelvedata_get_series raise like any failed request.                    *)
(***************************************************************************)
EXTENDS Integers, Sequences, FiniteSets, TLC

VARIABLES
    market,        \* what the data provider answers, per symbol and interval
    job,           \* the scheduled job that runs, or "none" for a direct call
    jpc,           \* the job's position
    symbol,        \* get_and_analyze: its argument
    apc,           \* get_and_analyze: its position
    raw_15m,       \* get_and_analyze: locals
    raw_5m,
    candles_15m,
    candles_5m,
    ret,           \* get_and_analyze: the value returned
    exc,           \* get_and_analyze: the exception that escaped it
    fetched,       \* the intervals twelvedata_get_series was called with, in order
    detect_calls,  \* calls of detect_sweep_and_green in this get_and_analyze
    build_calls,   \* calls of a plan builder in this get_and_analyze
    attempted,     \* the job: the symbols get_and_analyze was called with
    x,             \* the job's locals
    b,
    sent,          \* the messages handed to send_telegram_message, in order
    call,          \* a direct call of a pure function: its name and arguments
    out            \* ... and what it returned

vars == <<market, job, jpc, symbol, apc, raw_15m, raw_5m, candles_15m,
          candles_5m, ret, exc, fetched, detect_calls, build_calls,
          attempted, x, b, sent, call, out>>

\* ------------------------------------------------------------------ bounds

\* The most candles that come before the detector's trailing window in a series
\* handed to detect_sweep_and_green on its own.
MaxPrefix == 1
\* The most filler candles in a coarse series the provider answers with.
MaxFill == 96
\* The most candles that follow the filler candles of such a series.
MaxTail == 2

\* --------------------------------------------------------------- constants

pip_value == 200
One == 100 * pip_value
XAU_SL_PIPS == 20
BTC_SL_USD == 350
RR == 4
Lookback == 6
LiquidityCandles == 96
XauConfidence == 80
BtcConfidence == 75
XauEntryBuffer == One \div 50
BtcEntryBuffer == One
\* 1e-6, the floor of a candle's range, is 1/EpsDen of a tick.
EpsDen == 1000000 \div One

SYMBOL_XAU == <<"X", "A", "U", "/", "U", "S", "D">>
SYMBOL_BTC == <<"B", "T", "C", "/", "U", "S", "D">>
Symbols == {SYMBOL_XAU, SYMBOL_BTC}

\* The value of a local that is not assigned yet.
Unset == [unset |-> TRUE]

\* ----------------------------------------------------------------- helpers

Max(a, c) == IF a >= c THEN a ELSE c

Reverse(s) == [i \in 1..Len(s) |-> s[Len(s) + 1 - i]]

\* s[-n:] for n > 0
LastN(s, n) == IF Len(s) <= n THEN s ELSE SubSeq(s, Len(s) - n + 1, Len(s))

\* s[i] with Python's 0-based index
At(s, i) == s[i + 1]

\* sub in s, of strings
Contains(sub, s) ==
    \E i \in 0..(Len(s) - Len(sub)) : SubSeq(s, i + 1, i + Len(sub)) = sub

\* float(q): a quoted price, in ticks
float(q) == q * (One \div 10000)

parse_candles(raw_candles) ==
    [i \in 1..Len(raw_candles) |->
        [open  |-> float(raw_candles[i].open),
         high  |-> float(raw_candles[i].high),
         low   |-> float(raw_candles[i].low),
         close |-> float(raw_candles[i].close)]]

\* The provider's answer is newest-first; an answer that is no list of values, or
\* a transport failure, raises.
twelvedata_get_series(response) ==
    IF response.status = "ok"
    THEN [raised |-> FALSE, value |-> Reverse(response.values)]
    ELSE [raised |-> TRUE, value |-> response.status]

\* -------------------------------------------------------------- the detector

\* lower_wick / range_ > 0.4
WickIsSignificant(c) ==
    LET lower_wick == IF c.open > c.close THEN c.open - c.low ELSE c.close - c.low
    IN  IF c.high - c.low > 0
        THEN 10 * lower_wick > 4 * (c.high - c.low)
        ELSE 10 * lower_wick * EpsDen > 4

IsLocalMin(window, i) ==
    /\ At(window, i).low < At(window, i - 1).low
    /\ At(window, i).low < At(window, i + 1).low

IsGreen(c) == c.close > c.open

\* A scan that lets a later candidate win over an earlier one.
RECURSIVE ScanFrom_latest(_, _)
ScanFrom_latest(window, i) ==
    IF i >= Len(window) - 1
    THEN [signal |-> FALSE, reason |-> "no_sweep_found"]
    ELSE LET later == ScanFrom_latest(window, i + 1)
         IN  IF later.signal THEN later
             ELSE IF /\ IsLocalMin(window, i)
                     /\ WickIsSignificant(At(window, i))
                     /\ IsGreen(At(window, i + 1))
                  THEN [signal               |-> TRUE,
                        sweep_candle         |-> At(window, i),
                        confirm_candle       |-> At(window, i + 1),
                        sweep_index_from_end |-> Len(window) - (i + 1)]
                  ELSE later

\* The loop of detect_sweep_and_green from index i on: for i in range(i, len(window)-1)
RECURSIVE ScanFrom(_, _)
ScanFrom(window, i) ==
    IF i >= Len(window) - 1
    THEN [signal |-> FALSE, reason |-> "no_sweep_found"]
    ELSE IF /\ IsLocalMin(window, i)
            /\ WickIsSignificant(At(window, i))
            /\ IsGreen(At(window, i + 1))
         THEN [signal               |-> TRUE,
               sweep_candle         |-> At(window, i),
               confirm_candle       |-> At(window, i + 1),
               sweep_index_from_end |-> Len(window) - (i + 1)]
         ELSE ScanFrom(window, i + 1)

\* A window one candle too long.
DetectionWindow_wide(candles, lookback) == LastN(candles, lookback + 2)

DetectionWindow(candles, lookback) == LastN(candles, lookback + 1)

\* A length check that is off by one.
HasEnoughData_off_by_one(candles, lookback) == ~ (Len(candles) < lookback + 1)

HasEnoughData(candles, lookback) == ~ (Len(candles) < lookback + 2)

detect_sweep_and_green(candles, lookback) ==
    IF ~ HasEnoughData(candles, lookback)
    THEN [signal |-> FALSE, reason |-> "not_enough_data"]
    ELSE ScanFrom(DetectionWindow(candles, lookback), 1)

\* ------------------------------------------------------------ liquidity zones

\* min(lows) and max(highs), over the candles from place lo to place hi; the
\* range is halved so that a long series does not nest deeply.
RECURSIVE MinLow(_, _, _)
MinLow(s, lo, hi) ==
    IF lo = hi THEN s[lo].low
    ELSE LET mid == (lo + hi) \div 2
             l   == MinLow(s, lo, mid)
             r   == MinLow(s, mid + 1, hi)
         IN  IF r < l THEN r ELSE l

RECURSIVE MaxHigh(_, _, _)
MaxHigh(s, lo, hi) ==
    IF lo = hi THEN s[lo].high
    ELSE LET mid == (lo + hi) \div 2
             l   == MaxHigh(s, lo, mid)
             r   == MaxHigh(s, mid + 1, hi)
         IN  IF r > l THEN r ELSE l

\* min() and max() of an empty list raise ValueError.
compute_liquidity_zones(candles) ==
    IF Len(candles) = 0
    THEN [raised |-> TRUE, value |-> "ValueError"]
    ELSE [raised |-> FALSE,
          value  |-> [recent_low  |-> MinLow(candles, 1, Len(candles)),
                      recent_high |-> MaxHigh(candles, 1, Len(candles)),
                      last_close  |-> candles[Len(candles)].close]]

\* The zones taken over the whole series.
LiquiditySlice_all(candles) == candles

\* candles_15m[-96:]
LiquiditySlice(candles) == LastN(candles, LiquidityCandles)

\* ---------------------------------------------------------- trade plan builders

RECURSIVE Pow10(_)
Pow10(n) == IF n = 0 THEN 1 ELSE 10 * Pow10(n - 1)

\* round(v, ndigits): the multiples of 10^-ndigits nearest to v.  Python rounds the
\* binary number it holds, which for a decimal tie (v exactly between two
\* multiples) lies a hair to one side or the other: either neighbour may come out.
round(v, ndigits) ==
    LET step == One \div Pow10(ndigits)
        down == (v \div step) * step
        rest == v - down
    IN  IF 2 * rest < step THEN {down}
        ELSE IF 2 * rest > step THEN {down + step}
        ELSE {down, down + step}

\* A take profit at 1:1, the risk-reward multiple forgotten.
XauTakeProfit_no_rr(entry, rr_distance) == entry + rr_distance

XauTakeProfit(entry, rr_distance) == entry + rr_distance * RR

BtcTakeProfit(entry, rr_distance) == entry + rr_distance * RR

build_xau_trade_plan(latest_15m, latest_5m, detection) ==
    LET sweep       == detection.sweep_candle
        confirm     == detection.confirm_candle
        sweep_low   == sweep.low
        sl_price    == sweep_low - (XAU_SL_PIPS * pip_value)
        entry       == Max(confirm.open + XauEntryBuffer,
                           (confirm.close + sweep_low) \div 2)
        rr_distance == entry - sl_price
        tp          == XauTakeProfit(entry, rr_distance)
        tp1         == entry + rr_distance * 1
    IN  { [side       |-> "LONG",
           entry      |-> r[1],
           sl         |-> r[2],
           tp         |-> r[3],
           tp1        |-> r[4],
           confidence |-> XauConfidence,
           logic      |-> "Sweep detected + green confirm on 15m"] :
          r \in round(entry, 3) \X round(sl_price, 3) \X round(tp, 3) \X round(tp1, 3) }

build_btc_trade_plan(latest_15m, latest_5m, detection) ==
    LET sweep       == detection.sweep_candle
        confirm     == detection.confirm_candle
        sweep_low   == sweep.low
        sl_price    == sweep_low - BTC_SL_USD * One
        entry       == Max(confirm.open + BtcEntryBuffer,
                           (confirm.close + sweep_low) \div 2)
        rr_distance == entry - sl_price
        tp          == BtcTakeProfit(entry, rr_distance)
    IN  { [side       |-> "LONG",
           entry      |-> r[1],
           sl         |-> r[2],
           tp         |-> r[3],
           tp1        |-> r[4],
           confidence |-> BtcConfidence,
           logic      |-> "Sweep detected + green confirm on 15m"] :
          r \in round(entry, 2) \X round(sl_price, 2) \X round(tp, 2)
                \X round(entry + rr_distance * 1, 2) }

\* ------------------------------------------------------------------ messages

\* A test for the symbol being "XAU" itself.
IsGoldSymbol_exact(sym) == sym = <<"X", "A", "U">>

\* "XAU" in symbol
IsGoldSymbol(sym) == Contains(<<"X", "A", "U">>, sym)

\* analysis.get("plan"), as a truth value: a missing plan is None, which is false.
HasPlan(analysis) == "plan" \in DOMAIN analysis /\ DOMAIN analysis.plan # {}

format_plan_message(analysis) ==
    IF "error" \in DOMAIN analysis
    THEN [kind |-> "error", error |-> analysis.error]
    ELSE IF ~ HasPlan(analysis)
    THEN [kind        |-> "snapshot",
          symbol      |-> analysis.symbol,
          recent_low  |-> analysis.liquidity.recent_low,
          recent_high |-> analysis.liquidity.recent_high,
          last_close  |-> analysis.liquidity.last_close]
    ELSE [kind        |-> "plan",
          symbol      |-> analysis.symbol,
          logic       |-> analysis.plan.logic,
          side        |-> analysis.plan.side,
          entry       |-> analysis.plan.entry,
          sl          |-> analysis.plan.sl,
          tp          |-> analysis.plan.tp,
          tp1         |-> analysis.plan.tp1,
          confidence  |-> analysis.plan.confidence,
          recent_low  |-> analysis.liquidity.recent_low,
          recent_high |-> analysis.liquidity.recent_high,
          latest_close |-> analysis.latest_15m.close]

\* ------------------------------------------------- the provider's candles

\* The quote units.frac, frac in 1/10000
Quote(units, frac) == units * 10000 + frac

\* red, lowest low, wick ratio 1
CandleS == [open  |-> Quote(400, 40), high  |-> Quote(400, 40),
            low   |-> Quote(400, 10), close |-> Quote(400, 30)]
\* green, lowest low, wick ratio exactly 0.4
CandleE == [open  |-> Quote(400, 10), high  |-> Quote(400, 60),
            low   |-> Quote(400, 10), close |-> Quote(400, 30)]
\* green, a higher low
CandleG == [open  |-> Quote(400, 30), high  |-> Quote(400, 50),
            low   |-> Quote(400, 20), close |-> Quote(400, 50)]
\* red, the highest low
CandleR == [open  |-> Quote(400, 50), high  |-> Quote(400, 50),
            low   |-> Quote(400, 30), close |-> Quote(400, 40)]
\* green, open and close far below its own low: not a well-formed candle, which
\* parse_candles accepts as it accepts any four numbers
CandleM == [open  |-> Quote(40, 0),   high  |-> Quote(400, 50),
            low   |-> Quote(400, 20), close |-> Quote(41, 0)]

DetectPalette == {CandleS, CandleE, CandleG, CandleR}

\* The candles that come before the detector's window.
PrefixPalette == {CandleS, CandleG}

SeriesOver(palette, lengths) ==
    UNION { [1..n -> palette] : n \in lengths }

\* ------------------------------------------------------------- idle states

AnalysisIdle ==
    /\ symbol = <<>>
    /\ apc = "idle"
    /\ raw_15m = <<>>
    /\ raw_5m = <<>>
    /\ candles_15m = <<>>
    /\ candles_5m = <<>>
    /\ ret = Unset
    /\ exc = "none"
    /\ fetched = <<>>
    /\ detect_calls = 0
    /\ build_calls = 0

JobIdle ==
    /\ job = "none"
    /\ jpc = "idle"
    /\ attempted = {}
    /\ x = Unset
    /\ b = Unset
    /\ sent = <<>>

NoAnswer == [status |-> "http_error"]

MarketClosed == [s \in Symbols |-> [m15 |-> NoAnswer, m5 |-> NoAnswer]]

analysisVars == <<symbol, apc, raw_15m, raw_5m, candles_15m, candles_5m, ret,
                  exc, fetched, detect_calls, build_calls>>

jobVars == <<job, jpc, attempted, x, b, sent>>

\* ------------------------------------- detect_sweep_and_green, called directly

\* Every series of up to Lookback+1 candles, and every window of Lookback+1
\* candles behind up to MaxPrefix earlier candles.
DetectSeries ==
    SeriesOver(DetectPalette, 0..(Lookback + 1))
    \cup { p \o w : p \in SeriesOver(PrefixPalette, 1..MaxPrefix),
                    w \in SeriesOver(DetectPalette, {Lookback + 1}) }

DetectCalls ==
    { [fn       |-> "detect_sweep_and_green",
       candles  |-> parse_candles(s),
       lookback |-> Lookback] : s \in DetectSeries }

InitDetect ==
    /\ call \in DetectCalls
    /\ out = Unset
    /\ market = MarketClosed
    /\ AnalysisIdle
    /\ JobIdle

DetectCall ==
    /\ call.fn = "detect_sweep_and_green"
    /\ out = Unset
    /\ out' = detect_sweep_and_green(call.candles, call.lookback)
    /\ UNCHANGED <<market, call, analysisVars, jobVars>>

NextDetect == DetectCall

SpecDetect == InitDetect /\ [][NextDetect]_vars

\* ------------------------------------------------ properties of the detector

\* The candle at place k of series c (first place 1) is a strict local minimum by
\* low, its lower wick is more than 0.4 of its range (of 1e-6 when the range is
\* not positive), and the next candle closes above its open.
SweepAt(c, k) ==
    LET lw == IF c[k].open > c[k].close THEN c[k].open - c[k].low
                                         ELSE c[k].close - c[k].low
        rg == c[k].high - c[k].low
    IN  /\ c[k].low < c[k - 1].low
        /\ c[k].low < c[k + 1].low
        /\ IF rg > 0 THEN 5 * lw > 2 * rg ELSE lw > 0
        /\ c[k + 1].close > c[k + 1].open

\* The place in c of position i of the trailing window of L+1 candles.
PlaceOf(c, L, i) == Len(c) - L + i

\* The interior positions of the trailing window that qualify.
Qualifying(c, L) == { i \in 1..(L - 1) : SweepAt(c, PlaceOf(c, L, i)) }

Least(S) == CHOOSE m \in S : \A n \in S : m <= n

DetectReturned == call # Unset /\ call.fn = "detect_sweep_and_green" /\ out # Unset

\* C1: a series shorter than lookback+2 (the empty one and one of exactly lookback+1
\* candles included) gets the no-signal result with the not-enough-data reason and
\* nothing else: no sweep candle, no confirming candle, no offset.
C1_ShortSeriesInsufficient ==
    (DetectReturned /\ Len(call.candles) < call.lookback + 2)
        => /\ DOMAIN out = {"signal", "reason"}
           /\ out.signal = FALSE
           /\ out.reason = "not_enough_data"

C1_Witness ==
    /\ DetectReturned
    /\ Len(call.candles) = call.lookback + 1
    /\ out.reason = "not_enough_data"

\* C2: when positions of the trailing window qualify, the signal names the smallest
\* of them: its candle as the sweep, the next as the confirmation, and the offset
\* (window length) - (i+1), which is not negative.
C2_EarliestSweepWins ==
    (DetectReturned /\ Len(call.candles) >= call.lookback + 2
                    /\ Qualifying(call.candles, call.lookback) # {})
        => LET c == call.candles
               L == call.lookback
               i == Least(Qualifying(c, L))
           IN  /\ out.signal = TRUE
               /\ out.sweep_candle = c[PlaceOf(c, L, i)]
               /\ out.confirm_candle = c[PlaceOf(c, L, i) + 1]
               /\ out.sweep_index_from_end = (L + 1) - (i + 1)
               /\ out.sweep_index_from_end >= 0

\* Two positions qualify, and before the first of them a local minimum fails the
\* wick test.
C2_Witness ==
    /\ DetectReturned
    /\ Len(call.candles) >= call.lookback + 2
    /\ Cardinality(Qualifying(call.candles, call.lookback)) >= 2
    /\ out.signal = TRUE
    /\ \E j \in 1..(call.lookback - 1) :
          /\ j < Least(Qualifying(call.candles, call.lookback))
          /\ IsLocalMin(DetectionWindow(call.candles, call.lookback), j)

\* C3: with at least lookback+2 candles, the result is the no-pattern one exactly
\* when no interior position of the trailing window of lookback+1 candles
\* qualifies; the candles before that window play no part.
C3_NoPatternIffNoneQualifies ==
    (DetectReturned /\ Len(call.candles) >= call.lookback + 2)
        => ( (out = [signal |-> FALSE, reason |-> "no_sweep_found"])
             <=> (Qualifying(call.candles, call.lookback) = {}) )

\* No pattern, although the first candle of the window would qualify if the
\* candle before the window counted.
C3_Witness ==
    /\ DetectReturned
    /\ Len(call.candles) = call.lookback + 2
    /\ out = [signal |-> FALSE, reason |-> "no_sweep_found"]
    /\ SweepAt(call.candles, PlaceOf(call.candles, call.lookback, 0))

\* ----------------------------------------- the plan builders, called directly

\* The fractions of the quotes: decimal ties of round(v, 3) and of round(v, 2)
\* among them.
PlanFractions == {0, 3, 5, 50, 55}

PlanLows == { Quote(400, f) : f \in PlanFractions }

PlanOpens == { Quote(u, f) : u \in {399, 400, 401}, f \in PlanFractions }

PlanCloses == { Quote(u, f) : u \in {401, 402, 1500}, f \in PlanFractions }

\* A signal as detect_sweep_and_green returns it: the confirming candle is green.
PlanSignals ==
    { [signal               |-> TRUE,
       sweep_candle         |-> parse_candles(<<[open |-> l + 30, high |-> l + 30,
                                                 low |-> l, close |-> l + 20]>>)[1],
       confirm_candle       |-> parse_candles(<<[open |-> o, high |-> c,
                                                 low |-> l + 1, close |-> c]>>)[1],
       sweep_index_from_end |-> 1] :
      <<l, o, c>> \in { t \in PlanLows \X PlanOpens \X PlanCloses : t[3] > t[2] } }

BuildCalls ==
    { [fn         |-> f,
       latest_15m |-> d.confirm_candle,
       latest_5m  |-> d.confirm_candle,
       detection  |-> d] :
      f \in {"build_xau_trade_plan", "build_btc_trade_plan"}, d \in PlanSignals }

InitPlan ==
    /\ call \in BuildCalls
    /\ out = Unset
    /\ market = MarketClosed
    /\ AnalysisIdle
    /\ JobIdle

BuildXau ==
    /\ call.fn = "build_xau_trade_plan"
    /\ out = Unset
    /\ \E plan \in build_xau_trade_plan(call.latest_15m, call.latest_5m, call.detection) :
          out' = plan
    /\ UNCHANGED <<market, call, analysisVars, jobVars>>

BuildBtc ==
    /\ call.fn = "build_btc_trade_plan"
    /\ out = Unset
    /\ \E plan \in build_btc_trade_plan(call.latest_15m, call.latest_5m, call.detection) :
          out' = plan
    /\ UNCHANGED <<market, call, analysisVars, jobVars>>

NextPlan == BuildXau \/ BuildBtc

SpecPlan == InitPlan /\ [][NextPlan]_vars

\* ------------------------------------------------- properties of the builders

Abs(n) == IF n >= 0 THEN n ELSE -n

BuildReturned ==
    /\ call # Unset
    /\ call.fn \in {"build_xau_trade_plan", "build_btc_trade_plan"}
    /\ out # Unset

\* The builder's rounding step (0.001 for gold, 0.01 for crypto), stop distance
\* (0.20, 350) and entry buffer (0.02, 1.0), in ticks.
StepOf(fn) == IF fn = "build_xau_trade_plan" THEN One \div 1000 ELSE One \div 100

StopDistanceOf(fn) == IF fn = "build_xau_trade_plan" THEN One \div 5 ELSE 350 * One

EntryBufferOf(fn) == IF fn = "build_xau_trade_plan" THEN One \div 50 ELSE One

\* C4: for a signal whose sweep low is below the confirming candle's open, the plan
\* returned has sl < entry < tp; sl is sweep.low - stopDistance and entry is
\* max(confirm.open + entryBuffer, (confirm.close + sweep.low) / 2), each rounded
\* to the builder's step; and tp - entry is 4 * (entry - sl) to within the error
\* the three roundings can add up to, (4 + 1) steps.
C4_PlanOrderedAndRiskReward ==
    (BuildReturned
        /\ call.detection.sweep_candle.low < call.detection.confirm_candle.open)
    => LET low     == call.detection.sweep_candle.low
           confirm == call.detection.confirm_candle
           step    == StepOf(call.fn)
           stop    == low - StopDistanceOf(call.fn)
           mid2    == confirm.close + low
           open2   == 2 * (confirm.open + EntryBufferOf(call.fn))
           entry2  == IF open2 >= mid2 THEN open2 ELSE mid2
       IN  /\ out.sl < out.entry
           /\ out.entry < out.tp
           /\ 2 * Abs(out.sl - stop) <= step
           /\ Abs(2 * out.entry - entry2) <= step
           /\ Abs((out.tp - out.entry) - 4 * (out.entry - out.sl)) <= (4 + 1) * step

\* A plan whose entry is the midpoint, a decimal tie of the rounding, which came
\* out rounded up.
C4_Witness ==
    /\ BuildReturned
    /\ call.detection.sweep_candle.low < call.detection.confirm_candle.open
    /\ LET mid == (call.detection.confirm_candle.close
                     + call.detection.sweep_candle.low) \div 2
       IN  /\ mid > call.detection.confirm_candle.open + EntryBufferOf(call.fn)
           /\ mid % StepOf(call.fn) = StepOf(call.fn) \div 2
           /\ out.entry > mid

\* ------------------------------------------------------------ get_and_analyze

\* A candle whose low is the lowest and whose high is the highest of all.
CandleX == [open  |-> Quote(400, 0), high  |-> Quote(402, 0),
            low   |-> Quote(399, 0), close |-> Quote(400, 0)]

\* The provider's answer for a series given oldest-first.
Answer(series) == [status |-> "ok", values |-> Reverse(series)]

Failures == {[status |-> "http_error"], [status |-> "no_values"]}

Fill(k) == [i \in 1..k |-> CandleR]

\* The builder get_and_analyze picks for the symbol.
PlansFor(sym, latest_15m, latest_5m, detection) ==
    IF IsGoldSymbol(sym)
    THEN build_xau_trade_plan(latest_15m, latest_5m, detection)
    ELSE build_btc_trade_plan(latest_15m, latest_5m, detection)

\* The call get_and_analyze(sym): its locals fresh, its first statement next.
EnterAnalysis(sym) ==
    /\ symbol' = sym
    /\ apc' = "fetch_15m"
    /\ raw_15m' = <<>>
    /\ raw_5m' = <<>>
    /\ candles_15m' = <<>>
    /\ candles_5m' = <<>>
    /\ ret' = Unset
    /\ exc' = "none"
    /\ fetched' = <<>>
    /\ detect_calls' = 0
    /\ build_calls' = 0

\* raw_15m = twelvedata_get_series(...); an exception returns the error result.
Fetch15m ==
    /\ apc = "fetch_15m"
    /\ fetched' = Append(fetched, "15min")
    /\ LET r == twelvedata_get_series(market[symbol].m15)
       IN  IF r.raised
           THEN /\ ret' = [error |-> <<"data_fetch_error", r.value>>]
                /\ apc' = "returned"
                /\ raw_15m' = raw_15m
           ELSE /\ raw_15m' = r.value
                /\ apc' = "fetch_5m"
                /\ ret' = ret
    /\ UNCHANGED <<market, symbol, raw_5m, candles_15m, candles_5m, exc,
                   detect_calls, build_calls, jobVars, call, out>>

\* A second fetch whose failure is swallowed: the analysis goes on with no candles.
Fetch5m_swallow ==
    /\ apc = "fetch_5m"
    /\ fetched' = Append(fetched, "5min")
    /\ LET r == twelvedata_get_series(market[symbol].m5)
       IN  /\ raw_5m' = IF r.raised THEN <<>> ELSE r.value
           /\ apc' = "analyze"
           /\ ret' = ret
    /\ UNCHANGED <<market, symbol, raw_15m, candles_15m, candles_5m, exc,
                   detect_calls, build_calls, jobVars, call, out>>

\* raw_5m = twelvedata_get_series(...); an exception returns the error result.
Fetch5m ==
    /\ apc = "fetch_5m"
    /\ fetched' = Append(fetched, "5min")
    /\ LET r == twelvedata_get_series(market[symbol].m5)
       IN  IF r.raised
           THEN /\ ret' = [error |-> <<"data_fetch_error", r.value>>]
                /\ apc' = "returned"
                /\ raw_5m' = raw_5m
           ELSE /\ raw_5m' = r.value
                /\ apc' = "analyze"
                /\ ret' = ret
    /\ UNCHANGED <<market, symbol, raw_15m, candles_15m, candles_5m, exc,
                   detect_calls, build_calls, jobVars, call, out>>

\* The rest of get_and_analyze, from parse_candles to the return.
Analyze ==
    /\ apc = "analyze"
    /\ LET c15       == parse_candles(raw_15m)
           c5        == parse_candles(raw_5m)
           detection == detect_sweep_and_green(c15, Lookback)
           liquidity == compute_liquidity_zones(LiquiditySlice(c15))
       IN  /\ candles_15m' = c15
           /\ candles_5m' = c5
           /\ detect_calls' = detect_calls + 1
           /\ IF liquidity.raised
              THEN /\ exc' = liquidity.value
                   /\ apc' = "raised"
                   /\ UNCHANGED <<ret, build_calls>>
              ELSE IF Len(c5) = 0
              THEN /\ exc' = "IndexError"
                   /\ apc' = "raised"
                   /\ UNCHANGED <<ret, build_calls>>
              ELSE IF detection.signal
              THEN /\ \E plan \in PlansFor(symbol, c15[Len(c15)], c5[Len(c5)], detection) :
                         ret' = [symbol     |-> symbol,
                                 detection  |-> detection,
                                 liquidity  |-> liquidity.value,
                                 latest_15m |-> c15[Len(c15)],
                                 latest_5m  |-> c5[Len(c5)],
                                 plan       |-> plan]
                   /\ build_calls' = build_calls + 1
                   /\ apc' = "returned"
                   /\ exc' = exc
              ELSE /\ ret' = [symbol     |-> symbol,
                              detection  |-> detection,
                              liquidity  |-> liquidity.value,
                              latest_15m |-> c15[Len(c15)],
                              latest_5m  |-> c5[Len(c5)]]
                   /\ apc' = "returned"
                   /\ UNCHANGED <<exc, build_calls>>
    /\ UNCHANGED <<market, symbol, raw_15m, raw_5m, fetched, jobVars, call, out>>

\* The coarse series the provider may hold: at most one spike candle, filler
\* candles, and up to MaxTail candles of any shape; their lengths pass the
\* detector's minimum and the liquidity window.
FillLengths ==
    {0, Lookback - 1, Lookback}
    \cup ((LiquidityCandles - MaxTail - 1)..MaxFill)

CoarseSeries ==
    { h \o Fill(k) \o t :
        h \in SeriesOver({CandleX}, 0..1),
        k \in FillLengths,
        t \in SeriesOver({CandleS, CandleG, CandleM}, 0..MaxTail) }

FineSeries == {<<>>, <<CandleG>>, <<CandleR, CandleG>>}

AnalyzeFeeds ==
    { [m15 |-> r15, m5 |-> r5] :
        r15 \in Failures \cup { Answer(s) : s \in CoarseSeries },
        r5  \in Failures \cup { Answer(s) : s \in FineSeries } }

\* get_and_analyze called directly with one of the two symbols.
InitAnalyze ==
    /\ \E sym \in Symbols, feed \in AnalyzeFeeds :
          /\ symbol = sym
          /\ market = [s \in Symbols |-> IF s = sym THEN feed ELSE MarketClosed[s]]
    /\ apc = "fetch_15m"
    /\ raw_15m = <<>>
    /\ raw_5m = <<>>
    /\ candles_15m = <<>>
    /\ candles_5m = <<>>
    /\ ret = Unset
    /\ exc = "none"
    /\ fetched = <<>>
    /\ detect_calls = 0
    /\ build_calls = 0
    /\ JobIdle
    /\ call = Unset
    /\ out = Unset

NextAnalyze == Fetch15m \/ Fetch5m \/ Analyze

SpecAnalyze == InitAnalyze /\ [][NextAnalyze]_vars

\* ------------------------------------------------------------- the two jobs

\* job_pre_alert and job_post_open are the same statements with another text: the
\* opening message, then in one try block the two analyses and the two reports.
JobBegin ==
    /\ jpc = "start"
    /\ sent' = Append(sent, [kind |-> "intro", job |-> job])
    /\ jpc' = "call_x"
    /\ attempted' = attempted \cup {SYMBOL_XAU}
    /\ EnterAnalysis(SYMBOL_XAU)
    /\ UNCHANGED <<market, job, x, b, call, out>>

\* x = get_and_analyze(SYMBOL_XAU ...) returned; b = get_and_analyze(SYMBOL_BTC ...)
JobAfterXau ==
    /\ jpc = "call_x"
    /\ apc = "returned"
    /\ x' = ret
    /\ jpc' = "call_b"
    /\ attempted' = attempted \cup {SYMBOL_BTC}
    /\ EnterAnalysis(SYMBOL_BTC)
    /\ UNCHANGED <<market, job, b, sent, call, out>>

JobAfterBtc ==
    /\ jpc = "call_b"
    /\ apc = "returned"
    /\ b' = ret
    /\ jpc' = "send"
    /\ apc' = "idle"
    /\ UNCHANGED <<market, job, symbol, raw_15m, raw_5m, candles_15m, candles_5m,
                   ret, exc, fetched, detect_calls, build_calls, attempted, x,
                   sent, call, out>>

\* send_telegram_message(format_plan_message(x)), then the same for b
JobSend ==
    /\ jpc = "send"
    /\ sent' = sent \o <<format_plan_message(x), format_plan_message(b)>>
    /\ jpc' = "done"
    /\ UNCHANGED <<market, job, analysisVars, attempted, x, b, call, out>>

\* except Exception as e: the one message of the except block
JobExcept ==
    /\ jpc \in {"call_x", "call_b"}
    /\ apc = "raised"
    /\ sent' = Append(sent, [kind |-> "job_error", job |-> job, error |-> exc])
    /\ jpc' = "done"
    /\ apc' = "idle"
    /\ UNCHANGED <<market, job, symbol, raw_15m, raw_5m, candles_15m, candles_5m,
                   ret, exc, fetched, detect_calls, build_calls, attempted, x, b,
                   call, out>>

\* What the provider may hold for one symbol when a job runs.
JobCoarse ==
    Failures
    \cup { Answer(s) : s \in { <<>>,
                               Fill(Lookback),
                               Fill(Lookback + 2),
                               Fill(Lookback) \o <<CandleS, CandleG>>,
                               Fill(Lookback) \o <<CandleS, CandleM>> } }

JobFine == { [status |-> "http_error"], Answer(<<>>), Answer(<<CandleG>>) }

JobFeeds == { [m15 |-> r15, m5 |-> r5] : r15 \in JobCoarse, r5 \in JobFine }

\* The scheduler starts one of the two jobs.
Init ==
    /\ market \in [Symbols -> JobFeeds]
    /\ job \in {"job_pre_alert", "job_post_open"}
    /\ jpc = "start"
    /\ attempted = {}
    /\ x = Unset
    /\ b = Unset
    /\ sent = <<>>
    /\ AnalysisIdle
    /\ call = Unset
    /\ out = Unset

Next ==
    \/ JobBegin
    \/ Fetch15m
    \/ Fetch5m
    \/ Analyze
    \/ JobAfterXau
    \/ JobAfterBtc
    \/ JobSend
    \/ JobExcept

Spec == Init /\ [][Next]_vars

\* ------------------------------------------- properties of get_and_analyze

Coarse15Failed == market[symbol].m15.status # "ok"

Fine5Failed == market[symbol].m5.status # "ok"

ErrorOnly(v) == DOMAIN v = {"error"}

\* C5, as claimed: a result that get_and_analyze returns with a plan has
\* sl < entry < tp, whatever numbers the candles hold; a plan whose risk distance
\* is not positive is not attached.
C5_ReturnedPlanIsOrdered ==
    (apc = "returned" /\ "plan" \in DOMAIN ret)
        => /\ ret.plan.sl < ret.plan.entry
           /\ ret.plan.entry < ret.plan.tp

\* C6: when the coarse or the fine fetch fails, get_and_analyze returns a result
\* that holds the error and nothing else, after one call of the provider per
\* interval tried and none after the failure, and with neither the detector nor a
\* builder run; a result returned after both fetches succeeded holds no error.
C6_FetchFailureIsErrorOnly ==
    /\ (Coarse15Failed /\ apc # "fetch_15m")
         => /\ apc = "returned"
            /\ ErrorOnly(ret)
            /\ fetched = <<"15min">>
            /\ detect_calls = 0
            /\ build_calls = 0
    /\ (~ Coarse15Failed /\ Fine5Failed /\ apc \notin {"fetch_15m", "fetch_5m"})
         => /\ apc = "returned"
            /\ ErrorOnly(ret)
            /\ fetched = <<"15min", "5min">>
            /\ detect_calls = 0
            /\ build_calls = 0
    /\ (~ Coarse15Failed /\ ~ Fine5Failed /\ apc = "returned")
         => /\ "error" \notin DOMAIN ret
            /\ fetched = <<"15min", "5min">>

\* The fine fetch failed after the coarse one succeeded, and the call returned.
C6_Witness ==
    /\ ~ Coarse15Failed
    /\ Len(market[symbol].m15.values) >= Lookback + 2
    /\ Fine5Failed
    /\ apc = "returned"
    /\ ErrorOnly(ret)

\* C7, as claimed: no exception escapes get_and_analyze; an empty series comes back
\* as an error held in the result.
C7_NoExceptionEscapes ==
    /\ apc # "raised"
    /\ (apc = "returned" /\ ~ Coarse15Failed /\ ~ Fine5Failed
          /\ (market[symbol].m15.values = <<>> \/ market[symbol].m5.values = <<>>))
         => "error" \in DOMAIN ret

\* C9: the zones of a result are those of the last min(96, length) coarse candles:
\* recent_low is at most every low among them and is one of them, recent_high is at
\* least every high among them and is one of them, and last_close is the close of
\* the last candle, the one the result holds as latest_15m.
C9_ZonesOverLast96 ==
    (apc = "returned" /\ "error" \notin DOMAIN ret)
        => LET c == candles_15m
               n == Len(c)
               W == { i \in 1..n : i > n - 96 }
           IN  /\ n >= 1
               /\ \A i \in W : ret.liquidity.recent_low <= c[i].low
               /\ \E i \in W : ret.liquidity.recent_low = c[i].low
               /\ \A i \in W : ret.liquidity.recent_high >= c[i].high
               /\ \E i \in W : ret.liquidity.recent_high = c[i].high
               /\ ret.liquidity.last_close = c[n].close
               /\ ret.latest_15m = c[n]

\* A series of more than 96 candles whose first candle, outside the window, has a
\* lower low and a higher high than the zones reported.
C9_Witness ==
    /\ apc = "returned"
    /\ "error" \notin DOMAIN ret
    /\ Len(candles_15m) > 96
    /\ candles_15m[1].low < ret.liquidity.recent_low
    /\ candles_15m[1].high > ret.liquidity.recent_high

\* --------------------------------------------------- properties of the jobs

Reports == { i \in 1..Len(sent) : sent[i].kind \in {"error", "snapshot", "plan"} }

\* C8, as claimed: when a job ends, get_and_analyze was called for both symbols and
\* a report for each of the two was handed to the sender, whichever analysis failed.
C8_BothSymbolsReported ==
    (jpc = "done") => /\ attempted = {SYMBOL_XAU, SYMBOL_BTC}
                      /\ Cardinality(Reports) = 2

\* The result v, of the symbol sym whose builder returns the plans in `plans`.
PlanMatchesDetection(v, sym, plans) ==
    (v # Unset /\ "error" \notin DOMAIN v)
        => /\ v.symbol = sym
           /\ ("plan" \in DOMAIN v) <=> (v.detection.signal = TRUE)
           /\ ("plan" \in DOMAIN v) => v.plan \in plans

\* The message m reports the result v.
MessageMatches(m, v) ==
    /\ (m.kind = "error") <=> ("error" \in DOMAIN v)
    /\ (m.kind = "plan") <=> ("plan" \in DOMAIN v)
    /\ (m.kind = "snapshot") <=> ("error" \notin DOMAIN v /\ "plan" \notin DOMAIN v)
    /\ (m.kind = "plan") => /\ m.entry = v.plan.entry
                            /\ m.sl = v.plan.sl
                            /\ m.tp = v.plan.tp
    /\ (m.kind = "snapshot") => m.recent_low = v.liquidity.recent_low
    /\ (m.kind = "error") => m.error = v.error

\* C10: a result without an error holds a plan exactly when its detection is a
\* signal; the plan is the gold builder's for XAU/USD and the crypto builder's for
\* BTC/USD, built from the detection's own candles; and the message made from a
\* result is the plan block when it holds a plan, the snapshot when it holds none,
\* the error line when it holds an error.
C10_PlanIffSignal ==
    /\ PlanMatchesDetection(x, SYMBOL_XAU,
          IF x # Unset /\ "plan" \in DOMAIN x
          THEN build_xau_trade_plan(x.latest_15m, x.latest_5m, x.detection) ELSE {})
    /\ PlanMatchesDetection(b, SYMBOL_BTC,
          IF b # Unset /\ "plan" \in DOMAIN b
          THEN build_btc_trade_plan(b.latest_15m, b.latest_5m, b.detection) ELSE {})
    /\ (jpc = "done" /\ x # Unset /\ b # Unset)
         => /\ Len(sent) = 3
            /\ MessageMatches(sent[2], x)
            /\ MessageMatches(sent[3], b)

\* A job that sent the gold plan and the crypto plan.
C10_Witness ==
    /\ jpc = "done"
    /\ Len(sent) = 3
    /\ sent[2].kind = "plan"
    /\ sent[3].kind = "plan"
    /\ sent[2].confidence # sent[3].confidence

====
